---- MODULE Spec2Model ----
(***************************************************************************)
(* devstats `pr` command (src/cmd/pr.go): run() walks the requested        *)
(* authors one after another; for each, pullRequests() starts one producer *)
(* goroutine (paginated search) and nWorkers enrichment goroutines under   *)
(* one errgroup, drains the output channel and returns (allPRs, g.Wait()). *)
(*                                                                         *)
(* Goroutines are anonymous closures, so the worker pool is a bag of       *)
(* worker states.  A stage's return is one step: its deferred function     *)
(* and the errgroup wrapper (errOnce, cancel) run with it.  The remote     *)
(* client is the environment: the result of a call is chosen when the call *)
(* returns.                                                                *)
(***************************************************************************)
EXTENDS Naturals, Sequences, FiniteSets, Bags, TLC

\* ---------------------------------------------------------------- bounds
\* Matches the remote search returns over one whole run.
MaxItems == 3
\* Search requests one pipeline may issue.
MaxPages == 2
\* Requested authors (prOpts.Authors).
MaxAuthors == 2
\* Capacity of the two channels (1024 in the program, scaled down).
workerChanSize == 1

\* ------------------------------------------------------- program constants
nWorkers == 4
ownerRepoTokenLen == 2

VARIABLES
  repo,        \* prOpts.Repo, a sequence of characters
  remote,      \* the remote API of this run: [limit, status, kinds]
  idx,         \* position of run's loop in prOpts.Authors
  runPc,       \* "loop" | "done"
  runErr,      \* error run returned
  cstats,      \* run's local slice of ContributorStats
  rendered,    \* what run handed to render
  mpc,         \* pullRequests: "idle" | "reduce" | "wait" | "returned"
  allPRs,      \* the reduce loop's slice
  res,         \* the pair pullRequests returned
  ppc,         \* producer: "call" | "wait" | "emit" | "done"
  page,        \* search requests issued so far by this pipeline
  pending,     \* ids of the current page not yet sent, in the API's order
  nextPage,    \* resp.NextPage != 0
  issues,      \* input channel buffer
  issuesClosed,
  pool,        \* bag of worker states [pc, item]
  workers,     \* the shared countdown
  prs,         \* output channel buffer
  prsClosed,
  gErr,        \* errgroup's err (set once)
  ctxDone,     \* the group's context is cancelled
  nextId,      \* id of the next match the search returns
  served,      \* ids the search returned to this pipeline, page after page
  emitted,     \* ids this pipeline's producer sent on issues, in send order
  taken,       \* bag of the ids this pipeline's workers received from issues
  nonPR,       \* ids received that are not pull requests
  fetchErr,    \* ids whose detail request failed with err != nil
  fetchBad,    \* ids whose detail request returned a status other than 200
  okAll,       \* ids whose detail request returned status 200
  okBefore,    \* those of okAll that returned before the cancellation
  sawBad,      \* some detail request returned a status other than 200
  sawErr,      \* some detail request failed with err != nil
  sawSearchErr, \* some search request failed
  firstErr,    \* the first non-nil error a stage returned
  lastErr,     \* the latest non-nil error a stage returned
  started,     \* authors pullRequests was called for, in call order
  published,   \* ids sent on prs
  closes       \* number of close(prs) performed by this pipeline

vars == <<repo, remote, idx, runPc, runErr, cstats, rendered, mpc, allPRs, res,
          ppc, page, pending, nextPage, issues, issuesClosed, pool, workers,
          prs, prsClosed, gErr, ctxDone, nextId, okAll, okBefore, sawBad,
          sawErr, sawSearchErr, firstErr, lastErr, started, published, closes,
          served, emitted, taken, nonPR, fetchErr, fetchBad>>

runVars  == <<repo, remote, started, idx, runPc, runErr, cstats, rendered>>
mainVars == <<mpc, allPRs, res>>
prodVars == <<ppc, page, pending, nextPage, nextId>>
chanVars == <<issues, issuesClosed, prs, prsClosed>>
poolVars == <<pool, workers, closes, published>>
errVars  == <<gErr, ctxDone, firstErr, lastErr>>
histVars == <<okAll, okBefore, sawBad, sawErr, fetchErr, fetchBad>>
flowVars == <<served, emitted, taken, nonPR>>

\* ----------------------------------------------------------------- values
Nil        == [kind |-> "nil", n |-> 0]
errRepoFmt == [kind |-> "repofmt", n |-> 0]
ErrSearch  == [kind |-> "search", n |-> 0]
ErrCanceled == [kind |-> "canceled", n |-> 0]
ErrBodyClose(i) == [kind |-> "bodyclose", n |-> i]
ErrPRGet(i) == [kind |-> "prget", n |-> i]

Authors == [i \in 1..MaxAuthors |-> i]

\* strings.Split(s, sep) for a one-character separator.
RECURSIVE Split(_, _)
Split(s, sep) ==
  IF \A i \in 1..Len(s) : s[i] # sep
    THEN <<s>>
    ELSE LET i == CHOOSE k \in 1..Len(s) :
                    s[k] = sep /\ \A j \in 1..(k - 1) : s[j] # sep
         IN  <<SubSeq(s, 1, i - 1)>> \o Split(SubSeq(s, i + 1, Len(s)), sep)

\* len(ownerAndRepo) != ownerRepoTokenLen
RepoRejected(r) == Len(Split(r, "/")) # ownerRepoTokenLen

GoodRepo == <<"o", "/", "n">>
RepoInputs ==
  { <<>>, <<"o">>, <<"o", "/">>, <<"/", "n">>, GoodRepo,
    <<"o", "/", "n", "/", "x">> }

\* ------------------------------------------------------------- statistics
\* The pull request the remote holds for match i: hours from creation to
\* merge, additions + deletions, commits, comments.
PR(i) == [hours |-> 24 * i, changes |-> 10 * i, commits |-> i,
          comments |-> i - 1]

\* A float64 statistic is a natural number of 1/Unit: exact for the mean,
\* the median and the deviation of up to four whole numbers.
Unit == 3 * 4

RECURSIVE Sum(_)
Sum(s) == IF s = <<>> THEN 0 ELSE Head(s) + Sum(Tail(s))

\* Position of s[i] in the sorted sample, equal values in index order.
Rank(s, i) ==
  Cardinality({j \in 1..Len(s) : s[j] < s[i] \/ (s[j] = s[i] /\ j <= i)})

\* sort.Float64s on a copy of the sample.
Sorted(s) == [k \in 1..Len(s) |-> s[CHOOSE i \in 1..Len(s) : Rank(s, i) = k]]

\* stats.Mean
Mean(s) == Sum(s) \div Len(s)

\* stats.Median: the middle value of the sorted sample, or the mean of the
\* two middle values.
Median(s) ==
  LET t == Sorted(s)
      n == Len(s)
  IN  IF n % 2 = 1 THEN t[(n + 1) \div 2]
                   ELSE (t[n \div 2] + t[n \div 2 + 1]) \div 2

\* stats.MedianAbsoluteDeviation: the median of the distances to the median.
MedianAbsoluteDeviation(s) ==
  LET m == Median(s)
  IN  Median([k \in 1..Len(s) |-> IF s[k] >= m THEN s[k] - m ELSE m - s[k]])

\* Mutant of calcStats: no guard for the empty sample; the library's answer
\* for it is not a number, which a value other than 0 stands for.
calcStats_NoGuard(s) ==
  LET f == [k \in 1..Len(s) |-> Unit * s[k]]
  IN  IF Len(s) = 0
        THEN [Mean |-> 1, Median |-> 1, MedianAbsoluteDeviation |-> 1]
        ELSE [Mean |-> Mean(f), Median |-> Median(f),
              MedianAbsoluteDeviation |-> MedianAbsoluteDeviation(f)]

\* calcStats(s): Statistics{} for the empty sample.
calcStats(s) ==
  LET f == [k \in 1..Len(s) |-> Unit * s[k]]
  IN  IF Len(s) = 0
        THEN [Mean |-> 0, Median |-> 0, MedianAbsoluteDeviation |-> 0]
        ELSE [Mean |-> Mean(f), Median |-> Median(f),
              MedianAbsoluteDeviation |-> MedianAbsoluteDeviation(f)]

\* calculateStats(prs) with s.Author = a
calculateStats(ps, a) ==
  [Author     |-> a,
   PRs        |-> Len(ps),
   MergeTime  |-> calcStats([k \in 1..Len(ps) |-> PR(ps[k]).hours]),
   ChangeSize |-> calcStats([k \in 1..Len(ps) |-> PR(ps[k]).changes]),
   Commits    |-> calcStats([k \in 1..Len(ps) |-> PR(ps[k]).commits]),
   Comments   |-> calcStats([k \in 1..Len(ps) |-> PR(ps[k]).comments])]

Worker(pc, item) == [pc |-> pc, item |-> item]
Move(old, new) == (pool (-) SetToBag({old})) (+) SetToBag({new})
Live == {w \in BagToSet(pool) : w.pc # "done"}
Range(s) == {s[i] : i \in 1..Len(s)}

\* ------------------------------------------------------------------- Init
\* The remote API of a run: how many matches the search holds (limit), the
\* results a detail request may have (status) and whether matches may be plain
\* issues (kinds).  AnyRemote constrains nothing but the number of matches;
\* FailingRemote answers every detail request with a status other than 200 and
\* holds enough matches to engage every worker and fill the input channel.
Statuses == {"ok", "err", "bad"}
AnyRemote(n) == [limit |-> n, status |-> Statuses, kinds |-> BOOLEAN]
FailingRemote ==
  [limit |-> nWorkers + workerChanSize + 1, status |-> {"bad"},
   kinds |-> {TRUE}]

Scenarios ==
  {[repo |-> GoodRepo, remote |-> AnyRemote(MaxItems)],
   [repo |-> GoodRepo, remote |-> FailingRemote]}
    \cup {[repo |-> r, remote |-> AnyRemote(1)] : r \in RepoInputs}

Init ==
  /\ \E sc \in Scenarios : repo = sc.repo /\ remote = sc.remote
  /\ idx = 1
  /\ runPc = "loop"
  /\ runErr = Nil
  /\ cstats = <<>>
  /\ rendered = <<>>
  /\ mpc = "idle"
  /\ allPRs = <<>>
  /\ res = [prs |-> <<>>, err |-> Nil]
  /\ ppc = "done"
  /\ page = 0
  /\ pending = <<>>
  /\ nextPage = FALSE
  /\ issues = <<>>
  /\ issuesClosed = FALSE
  /\ pool = EmptyBag
  /\ workers = 0
  /\ prs = <<>>
  /\ prsClosed = FALSE
  /\ gErr = Nil
  /\ ctxDone = FALSE
  /\ nextId = 1
  /\ okAll = {}
  /\ okBefore = {}
  /\ sawBad = FALSE
  /\ sawErr = FALSE
  /\ sawSearchErr = FALSE
  /\ firstErr = Nil
  /\ lastErr = Nil
  /\ started = <<>>
  /\ published = {}
  /\ closes = 0
  /\ served = <<>>
  /\ emitted = <<>>
  /\ taken = EmptyBag
  /\ nonPR = {}
  /\ fetchErr = {}
  /\ fetchBad = {}

\* ------------------------------------------------------------- errgroup
\* Mutant of GroupDone: every non-nil error overwrites g.err (no errOnce).
GroupDone_LastWins(e) ==
  IF e = Nil
    THEN UNCHANGED <<gErr, ctxDone>>
    ELSE gErr' = e /\ ctxDone' = TRUE

\* errgroup's wrapper around a stage function that returned e:
\* errOnce.Do(func() { g.err = e; cancel() }).
GroupDone(e) ==
  IF e = Nil
    THEN UNCHANGED <<gErr, ctxDone>>
    ELSE /\ gErr' = IF gErr = Nil THEN e ELSE gErr
         /\ ctxDone' = TRUE

\* A stage function returns e (history of the returned errors).
StageReturn(e) ==
  /\ GroupDone(e)
  /\ IF e = Nil
       THEN UNCHANGED <<firstErr, lastErr>>
       ELSE /\ firstErr' = IF firstErr = Nil THEN e ELSE firstErr
            /\ lastErr' = e

\* ------------------------------------------------------------------- run
\* One iteration of run's loop calls pullRequests, which either rejects the
\* repository or starts the producer and the workers.
Start ==
  /\ runPc = "loop"
  /\ mpc = "idle"
  /\ idx <= Len(Authors)
  /\ started' = Append(started, idx)
  /\ IF RepoRejected(repo)
       THEN /\ mpc' = "returned"
            /\ res' = [prs |-> <<>>, err |-> errRepoFmt]
            /\ UNCHANGED <<allPRs, ppc, page, pending, nextPage, issues,
                           issuesClosed, pool, workers, prs, prsClosed, gErr,
                           ctxDone>>
       ELSE /\ mpc' = "reduce"
            /\ allPRs' = <<>>
            /\ ppc' = "call"
            /\ page' = 0
            /\ pending' = <<>>
            /\ nextPage' = FALSE
            /\ issues' = <<>>
            /\ issuesClosed' = FALSE
            /\ pool' = [w \in {Worker("recv", 0)} |-> nWorkers]
            /\ workers' = nWorkers
            /\ prs' = <<>>
            /\ prsClosed' = FALSE
            /\ gErr' = Nil
            /\ ctxDone' = FALSE
            /\ UNCHANGED res
  /\ okAll' = {}
  /\ okBefore' = {}
  /\ sawBad' = FALSE
  /\ sawErr' = FALSE
  /\ sawSearchErr' = FALSE
  /\ firstErr' = Nil
  /\ lastErr' = Nil
  /\ published' = {}
  /\ closes' = 0
  /\ served' = <<>>
  /\ emitted' = <<>>
  /\ taken' = EmptyBag
  /\ nonPR' = {}
  /\ fetchErr' = {}
  /\ fetchBad' = {}
  /\ UNCHANGED <<repo, remote, idx, runPc, runErr, cstats, rendered, nextId>>

\* --------------------------------------------------------------- producer
\* Matches the remote search has not yet returned.
Remaining == remote.limit - (nextId - 1)

\* sr, resp, err := gc.Search.Issues(ctx, sba, opt): the request goes out.
SearchCall ==
  /\ ppc = "call"
  /\ ppc' = "wait"
  /\ page' = page + 1
  /\ UNCHANGED <<runVars, mainVars, pending, nextPage, nextId, chanVars,
                 poolVars, errVars, histVars, flowVars, sawSearchErr>>

\* Mutant of ProducerFail: a failed search ends the loop and the producer
\* returns nil.
ProducerFail_Swallow(e) ==
  /\ ppc' = "done"
  /\ issuesClosed' = TRUE
  /\ StageReturn(Nil)
  /\ sawSearchErr' = TRUE
  /\ UNCHANGED <<pending, nextPage, nextId, served>>

\* if err != nil { return err }, with the deferred close(issues).
ProducerFail(e) ==
  /\ ppc' = "done"
  /\ issuesClosed' = TRUE
  /\ StageReturn(e)
  /\ sawSearchErr' = TRUE
  /\ UNCHANGED <<pending, nextPage, nextId, served>>

\* The request returns: an error, or a page of n matches with or without a
\* next-page token.  A cancelled context is one more way for it to fail.
SearchReturn ==
  /\ ppc = "wait"
  /\ \/ \E e \in {ErrSearch} \cup (IF ctxDone THEN {ErrCanceled} ELSE {}) :
          ProducerFail(e)
     \/ \E n \in 0..Remaining, nx \in BOOLEAN :
          /\ nx => page < MaxPages
          /\ ppc' = "emit"
          /\ pending' = [k \in 1..n |-> nextId + k - 1]
          /\ nextId' = nextId + n
          /\ served' = served \o [k \in 1..n |-> nextId + k - 1]
          /\ nextPage' = nx
          /\ UNCHANGED <<issuesClosed, errVars, sawSearchErr>>
  /\ UNCHANGED <<runVars, mainVars, page, issues, prs, prsClosed, poolVars,
                 histVars, emitted, taken, nonPR>>

\* issues <- i: blocks while the buffer is full.
Emit ==
  /\ ppc = "emit"
  /\ pending # <<>>
  /\ Len(issues) < workerChanSize
  /\ issues' = Append(issues, Head(pending))
  /\ emitted' = Append(emitted, Head(pending))
  /\ pending' = Tail(pending)
  /\ UNCHANGED <<runVars, mainVars, ppc, page, nextPage, nextId, issuesClosed,
                 prs, prsClosed, poolVars, errVars, histVars, sawSearchErr,
                 served, taken, nonPR>>

\* Mutant of PageDone: the producer returns after its first page whatever
\* resp.NextPage says.
PageDone_IgnoreToken ==
  /\ ppc = "emit"
  /\ pending = <<>>
  /\ ppc' = "done"
  /\ issuesClosed' = TRUE
  /\ StageReturn(Nil)
  /\ UNCHANGED <<runVars, mainVars, page, pending, nextPage, nextId, issues,
                 prs, prsClosed, poolVars, histVars, flowVars, sawSearchErr>>

\* End of a page: break and return nil when resp.NextPage == 0, else
\* opt.Page = resp.NextPage and loop.
PageDone ==
  /\ ppc = "emit"
  /\ pending = <<>>
  /\ IF nextPage
       THEN /\ ppc' = "call"
            /\ UNCHANGED <<issuesClosed, errVars>>
       ELSE /\ ppc' = "done"
            /\ issuesClosed' = TRUE
            /\ StageReturn(Nil)
  /\ UNCHANGED <<runVars, mainVars, page, pending, nextPage, nextId, issues,
                 prs, prsClosed, poolVars, histVars, flowVars, sawSearchErr>>

\* ---------------------------------------------------------------- workers
\* Mutant of WorkerExit: no countdown guard, every worker closes prs when it
\* returns.
WorkerExit_AllClose(w, e) ==
  /\ pool' = Move(w, Worker("done", 0))
  /\ workers' = workers - 1
  /\ prsClosed' = TRUE
  /\ closes' = closes + 1
  /\ StageReturn(e)

\* Mutant of WorkerExit: the first worker to return closes prs.
WorkerExit_FirstCloses(w, e) ==
  /\ pool' = Move(w, Worker("done", 0))
  /\ workers' = workers - 1
  /\ IF workers = nWorkers
       THEN prsClosed' = TRUE /\ closes' = closes + 1
       ELSE UNCHANGED <<prsClosed, closes>>
  /\ StageReturn(e)

\* Mutant of WorkerExit: the countdown and the close are not deferred, they
\* run only where the worker function returns nil.
WorkerExit_NoCloseOnError(w, e) ==
  /\ pool' = Move(w, Worker("done", 0))
  /\ IF e = Nil
       THEN /\ workers' = workers - 1
            /\ IF workers - 1 = 0
                 THEN prsClosed' = TRUE /\ closes' = closes + 1
                 ELSE UNCHANGED <<prsClosed, closes>>
       ELSE UNCHANGED <<workers, prsClosed, closes>>
  /\ StageReturn(e)

\* A worker function returns e: the deferred countdown, and the close of prs
\* by the worker that brings it to zero, then the errgroup wrapper.
WorkerExit(w, e) ==
  /\ pool' = Move(w, Worker("done", 0))
  /\ workers' = workers - 1
  /\ IF workers - 1 = 0
       THEN prsClosed' = TRUE /\ closes' = closes + 1
       ELSE UNCHANGED <<prsClosed, closes>>
  /\ StageReturn(e)

\* The worker goes on with the next iteration of its loop.
Continue(w) ==
  /\ pool' = Move(w, Worker("recv", 0))
  /\ UNCHANGED <<workers, prsClosed, closes, errVars>>

\* Mutant of TakeNext: the receive leaves the match in the buffer.
TakeNext_Peek == issues' = issues

\* i := <-issues removes the match at the head of the buffer.
TakeNext == issues' = Tail(issues)

\* Mutant of OnNonPR: no IsPullRequest filter, the detail request goes out
\* for every match.
OnNonPR_Fetch(w, i) == pool' = Move(w, Worker("fetch", i))

\* if !i.IsPullRequest() { continue }
OnNonPR(w, i) == pool' = pool

\* for i := range issues: take the next match; a match that is not a pull
\* request is skipped, for a pull request the detail request goes out.  The
\* loop ends when the channel is closed and drained.
Recv ==
  /\ \E w \in BagToSet(pool) :
       /\ w.pc = "recv"
       /\ \/ /\ issues # <<>>
             /\ TakeNext
             /\ taken' = taken (+) SetToBag({Head(issues)})
             /\ \E isPR \in remote.kinds :
                  IF isPR
                    THEN /\ pool' = Move(w, Worker("fetch", Head(issues)))
                         /\ UNCHANGED nonPR
                    ELSE /\ OnNonPR(w, Head(issues))
                         /\ nonPR' = nonPR \cup {Head(issues)}
             /\ UNCHANGED <<workers, prsClosed, closes, errVars>>
          \/ /\ issues = <<>>
             /\ issuesClosed
             /\ WorkerExit(w, Nil)
             /\ UNCHANGED <<issues, taken, nonPR>>
  /\ UNCHANGED <<runVars, mainVars, prodVars, issuesClosed, prs, histVars,
                 sawSearchErr, published, served, emitted>>

\* Mutant of OnFetchErr: the record of a failed detail request is sent on
\* prs like any other.
OnFetchErr_Publish(w) ==
  /\ pool' = Move(w, Worker("send", w.item))
  /\ UNCHANGED <<workers, prsClosed, closes, errVars>>

\* Mutant of OnFetchErr: a failed detail request ends the worker with an
\* error.
OnFetchErr_Fatal(w) == WorkerExit(w, ErrPRGet(w.item))

\* err != nil: skip processing this PR since we couldn't fetch it.
OnFetchErr(w) == Continue(w)

\* Mutant of OnFetchStatus: a status other than 200 is skipped like an error.
OnFetchStatus_Skip(w) == Continue(w)

\* resp.StatusCode != 200: return the Body.Close error or the PR GET error.
OnFetchStatus(w) ==
  \E e \in {ErrPRGet(w.item), ErrBodyClose(w.item)} : WorkerExit(w, e)

\* gc.PullRequests.Get returns: err != nil (the remote failed, or the context
\* was cancelled), a status other than 200, or the record.
FetchReturn ==
  /\ \E w \in BagToSet(pool) :
       /\ w.pc = "fetch"
       /\ \/ /\ "err" \in remote.status \/ ctxDone
             /\ OnFetchErr(w)
             /\ sawErr' = TRUE
             /\ fetchErr' = fetchErr \cup {w.item}
             /\ UNCHANGED <<okAll, okBefore, sawBad, fetchBad>>
          \/ /\ "bad" \in remote.status
             /\ OnFetchStatus(w)
             /\ sawBad' = TRUE
             /\ fetchBad' = fetchBad \cup {w.item}
             /\ UNCHANGED <<okAll, okBefore, sawErr, fetchErr>>
          \/ /\ "ok" \in remote.status
             /\ okAll' = okAll \cup {w.item}
             /\ okBefore' = IF ctxDone THEN okBefore
                                       ELSE okBefore \cup {w.item}
             /\ pool' = Move(w, Worker("send", w.item))
             /\ UNCHANGED <<workers, prsClosed, closes, errVars, sawBad,
                            sawErr, fetchErr, fetchBad>>
  /\ UNCHANGED <<runVars, mainVars, prodVars, issues, issuesClosed, prs,
                 sawSearchErr, published, flowVars>>

\* select { case <-ctx.Done(): return ctx.Err(); case prs <- pr: }
Send ==
  /\ \E w \in BagToSet(pool) :
       /\ w.pc = "send"
       /\ \/ /\ Len(prs) < workerChanSize
             /\ prs' = Append(prs, w.item)
             /\ published' = published \cup {w.item}
             /\ Continue(w)
          \/ /\ ctxDone
             /\ WorkerExit(w, ErrCanceled)
             /\ UNCHANGED <<prs, published>>
  /\ UNCHANGED <<runVars, mainVars, prodVars, issues, issuesClosed, histVars,
                 flowVars, sawSearchErr>>

\* ----------------------------------------------------------------- reduce
\* for pr := range prs { allPRs = append(allPRs, pr) }
Reduce ==
  /\ mpc = "reduce"
  /\ IF prs # <<>>
       THEN /\ allPRs' = Append(allPRs, Head(prs))
            /\ prs' = Tail(prs)
            /\ UNCHANGED mpc
       ELSE /\ prsClosed
            /\ mpc' = "wait"
            /\ UNCHANGED <<allPRs, prs>>
  /\ UNCHANGED <<runVars, res, prodVars, issues, issuesClosed, prsClosed,
                 poolVars, errVars, histVars, flowVars, sawSearchErr>>

\* Mutant of Wait: pullRequests returns when prs is closed and drained,
\* without g.Wait(); the producer may still be running.
Wait_NoJoin ==
  /\ mpc = "wait"
  /\ res' = [prs |-> allPRs, err |-> gErr]
  /\ mpc' = "returned"
  /\ UNCHANGED <<runVars, allPRs, prodVars, chanVars, poolVars, errVars,
                 histVars, flowVars, sawSearchErr>>

\* Mutant of WaitResult: no collection is returned with an error.
WaitResult_NilOnError ==
  [prs |-> IF gErr = Nil THEN allPRs ELSE <<>>, err |-> gErr]

\* return allPRs, g.Wait()
WaitResult == [prs |-> allPRs, err |-> gErr]

\* g.Wait() returns once every stage has returned (and cancels the context).
Wait ==
  /\ mpc = "wait"
  /\ ppc = "done"
  /\ Live = {}
  /\ res' = WaitResult
  /\ mpc' = "returned"
  /\ ctxDone' = TRUE
  /\ UNCHANGED <<runVars, allPRs, prodVars, chanVars, poolVars, gErr,
                 firstErr, lastErr, histVars, flowVars, sawSearchErr>>

\* ------------------------------------------------------------ run's loop
\* Mutant of RunFail: the failing author is skipped and the loop goes on.
RunFail_Continue ==
  /\ runErr' = res.err
  /\ idx' = idx + 1
  /\ mpc' = "idle"
  /\ UNCHANGED <<runPc, cstats, rendered>>

\* Mutant of RunFail: the records computed so far are rendered before the
\* error is returned.
RunFail_Renders ==
  /\ runPc' = "done"
  /\ runErr' = res.err
  /\ rendered' = cstats
  /\ UNCHANGED <<idx, cstats, mpc>>

\* if err != nil { return err }: run's locals, cstats among them, are gone.
RunFail ==
  /\ runPc' = "done"
  /\ runErr' = res.err
  /\ UNCHANGED <<idx, cstats, rendered, mpc>>

\* Mutant of RunKeep: the new record goes to the front of cstats.
RunKeep_Prepend ==
  /\ cstats' = <<calculateStats(res.prs, Authors[idx])>> \o cstats
  /\ idx' = idx + 1
  /\ mpc' = "idle"
  /\ UNCHANGED <<runPc, runErr, rendered>>

\* s := calculateStats(prs); s.Author = a; cstats = append(cstats, s)
RunKeep ==
  /\ cstats' = Append(cstats, calculateStats(res.prs, Authors[idx]))
  /\ idx' = idx + 1
  /\ mpc' = "idle"
  /\ UNCHANGED <<runPc, runErr, rendered>>

RunNext ==
  /\ runPc = "loop"
  /\ mpc = "returned"
  /\ IF res.err # Nil THEN RunFail ELSE RunKeep
  /\ UNCHANGED <<repo, remote, started, allPRs, res, prodVars, chanVars,
                 poolVars, errVars, histVars, flowVars, sawSearchErr>>

\* render(cstats); return nil
RunFinish ==
  /\ runPc = "loop"
  /\ mpc = "idle"
  /\ idx > Len(Authors)
  /\ rendered' = cstats
  /\ runPc' = "done"
  /\ UNCHANGED <<repo, remote, started, idx, runErr, cstats, mainVars,
                 prodVars, chanVars, poolVars, errVars, histVars, flowVars,
                 sawSearchErr>>

Next ==
  \/ Start
  \/ SearchCall
  \/ SearchReturn
  \/ Emit
  \/ PageDone
  \/ Recv
  \/ FetchReturn
  \/ Send
  \/ Reduce
  \/ Wait
  \/ RunNext
  \/ RunFinish

Spec == Init /\ [][Next]_vars

\* The Go scheduler runs a runnable goroutine and every remote call returns:
\* the program does not stop while a step is possible.  (Every step consumes
\* something, so no goroutine can be overtaken forever and fairness of each
\* single action adds nothing.)
FairSpec == Spec /\ WF_vars(Next)

\* ================================================================ claims
Returned == mpc = "returned"
\* pullRequests got past the repository check and started its stages.
Ran == ~RepoRejected(repo)
Fetching == {w.item : w \in {v \in BagToSet(pool) : v.pc = "fetch"}}
\* The repository identifier splits on "/" into two non-empty tokens.
WellFormedRepo(r) ==
  LET t == Split(r, "/") IN Len(t) = 2 /\ t[1] # <<>> /\ t[2] # <<>>

\* C1: when no search request failed and no detail request returned a status
\* other than 200, pullRequests returns a nil error and a collection that
\* holds, once each, exactly the matches whose detail request succeeded;
\* detail requests that failed with an error are skipped.
C1_SkipPolicy ==
  (Returned /\ Ran /\ ~sawSearchErr /\ ~sawBad) =>
    /\ res.err = Nil
    /\ Range(res.prs) = okAll
    /\ Len(res.prs) = Cardinality(okAll)

C1_Witness ==
  /\ Returned /\ Ran /\ ~sawSearchErr /\ ~sawBad
  /\ sawErr
  /\ okAll # {}
  /\ res.err = Nil

\* C2: when some detail request returned a status other than 200, the error
\* pullRequests returns is not nil.
C2_FatalStatus == (Returned /\ sawBad) => res.err # Nil

C2_Witness ==
  Returned /\ sawBad /\ sawErr /\ res.err.kind = "prget" /\ res.prs # <<>>

\* C3: a started pullRequests is never stuck: until it has returned, some
\* stage, the reduce loop or a pending remote call can take a step.
C3_Returns == (mpc \in {"reduce", "wait"}) => ENABLED Next

\* C4: once the pipeline runs, the output channel is eventually closed and
\* the reduce loop eventually ends.
C4_OutputClosed ==
  /\ (mpc = "reduce") ~> prsClosed
  /\ (mpc = "reduce") ~> (mpc # "reduce")

C4_Witness ==
  /\ mpc = "wait"
  /\ prsClosed
  /\ gErr # Nil
  /\ ppc # "done"

\* C5: once a stage error has cancelled the context, no step starts a search
\* request or a detail request.
C5_NoCallAfterCancel ==
  [][(ctxDone /\ gErr # Nil /\ mpc \in {"reduce", "wait"}) =>
       /\ Fetching' \subseteq Fetching
       /\ ~(ppc = "call" /\ ppc' = "wait")]_vars

\* C6: the error pullRequests returns from its stages is the first non-nil
\* error a stage returned (nil when there was none), and it is returned only
\* after the producer and every worker have returned.
C6_FirstErrorWins ==
  (Returned /\ Ran) =>
    /\ res.err = firstErr
    /\ ppc = "done"
    /\ Live = {}

C6_Witness ==
  /\ Returned /\ Ran
  /\ firstErr # Nil
  /\ lastErr # firstErr
  /\ res.err = firstErr

\* C7 (as claimed): with a non-nil error, the returned collection holds every
\* record fetched with status 200 before the cancellation.
C7_Original ==
  (Returned /\ Ran /\ res.err # Nil) => okBefore \subseteq Range(res.prs)

\* C7 (amended): with a non-nil error, the returned collection holds, once
\* each, exactly the records that were sent on the output channel.
C7_PublishedReturned ==
  (Returned /\ Ran /\ res.err # Nil) =>
    /\ Range(res.prs) = published
    /\ Len(res.prs) = Cardinality(published)

C7_Witness ==
  /\ Returned /\ Ran /\ res.err # Nil
  /\ published # {}
  /\ ~(okBefore \subseteq published)

\* C8: for a repository identifier that is not two non-empty tokens around
\* one "/", no search request is issued and pullRequests returns errRepoFmt.
C8_RepoFormat ==
  ~WellFormedRepo(repo) =>
    /\ page = 0
    /\ Fetching = {}
    /\ Returned => res.err = errRepoFmt

\* C9: when a pipeline returns a non-nil error, run's next step returns that
\* error without calling pullRequests again; run takes no step after it has
\* returned, so pullRequests was called for the authors up to the failing one
\* only.
C9_AbortOnFirstFailure ==
  /\ [][(runPc = "loop" /\ Returned /\ res.err # Nil) =>
          (runPc' = "done" /\ runErr' = res.err /\ started' = started)]_vars
  /\ [][runPc # "done"]_vars
  /\ [](runErr # Nil =>
          runPc = "done" /\ started = [i \in 1..idx |-> Authors[i]])

C9_Witness ==
  /\ runPc = "done"
  /\ runErr.kind \in {"search", "prget"}
  /\ started = <<Authors[1]>>
  /\ Len(Authors) > 1

\* C10 (as claimed): when the pipeline of the k-th author fails, the caller
\* of run receives the records of authors 1..k-1 with the error.
C10_Original ==
  (runPc = "done" /\ runErr # Nil) => Len(rendered) = idx - 1

\* C10 (amended): when the pipeline of the k-th author fails, run returns the
\* error alone: the k-1 records it had computed are not rendered.
C10_PartialDiscarded ==
  (runPc = "done" /\ runErr # Nil) =>
    /\ Len(cstats) = idx - 1
    /\ rendered = <<>>

C10_Witness ==
  /\ runPc = "done"
  /\ runErr # Nil
  /\ idx = 2
  /\ Len(cstats) = 1
  /\ rendered = <<>>

\* C11: when every author's pipeline succeeds, run renders exactly one record
\* per requested author, in the requested order; the record of an author is
\* appended when that author's pullRequests returns without error and its PRs
\* field is the length of the collection pullRequests returned.
C11_OneRecordPerAuthor ==
  /\ [][(mpc = "returned" /\ mpc' = "idle") =>
          /\ res.err = Nil
          /\ Len(cstats') = Len(cstats) + 1
          /\ SubSeq(cstats', 1, Len(cstats)) = cstats
          /\ cstats'[Len(cstats')].Author = Authors[idx]
          /\ cstats'[Len(cstats')].PRs = Len(res.prs)]_vars
  /\ []((runPc = "done" /\ runErr = Nil) =>
          /\ Len(rendered) = Len(Authors)
          /\ \A i \in 1..Len(Authors) : rendered[i].Author = Authors[i])

C11_Witness ==
  /\ runPc = "done"
  /\ runErr = Nil
  /\ Len(rendered) = 2
  /\ rendered[1].PRs = 2
  /\ rendered[1].MergeTime =
       [Mean |-> 36 * Unit, Median |-> 36 * Unit,
        MedianAbsoluteDeviation |-> 12 * Unit]
  /\ rendered[2].PRs = 0

\* C12: calcStats of the empty sample is {0,0,0}; an author whose pipeline
\* enriched no pull request (no match, matches that are not pull requests,
\* detail requests that failed) and met no search failure and no status other
\* than 200 gets no error and a record with PRs = 0 and four all-zero
\* Statistics.
C12_ZeroStats ==
  LET Z == [Mean |-> 0, Median |-> 0, MedianAbsoluteDeviation |-> 0]
      AllZero(c) == /\ c.PRs = 0
                    /\ c.MergeTime = Z
                    /\ c.ChangeSize = Z
                    /\ c.Commits = Z
                    /\ c.Comments = Z
  IN  /\ calcStats(<<>>) = Z
      /\ (Returned /\ Ran /\ okAll = {} /\ ~sawSearchErr /\ ~sawBad) =>
            /\ res.err = Nil
            /\ AllZero(calculateStats(res.prs, Authors[idx]))
      /\ \A i \in 1..Len(cstats) : cstats[i].PRs = 0 => AllZero(cstats[i])

C12_Witness ==
  /\ Returned
  /\ res.err = Nil
  /\ okAll = {}
  /\ nonPR # {}
  /\ fetchErr # {}
  /\ Len(cstats) = 1
  /\ cstats[1].PRs = 0

\* Workers of the current pipeline whose function has not returned.
Running == BagCardinality(pool) - CopiesIn(Worker("done", 0), pool)

\* C13: the countdown equals the number of workers that have not returned;
\* prs is closed at most once, by the step that takes the countdown from 1 to
\* 0, hence never while a worker is running; when pullRequests returns after
\* starting its stages, prs has been closed exactly once.
C13_ClosedOnceByLast ==
  /\ [](/\ workers = Running
        /\ closes <= 1
        /\ prsClosed <=> closes = 1
        /\ prsClosed => Running = 0
        /\ (Returned /\ Ran) => closes = 1)
  /\ [][closes' # closes =>
          \/ workers = 1 /\ workers' = 0 /\ closes' = closes + 1
          \/ mpc = "idle" /\ closes' = 0]_vars

C13_Witness ==
  /\ Returned
  /\ Ran
  /\ closes = 1
  /\ prsClosed
  /\ workers = 0
  /\ BagCardinality(pool) = nWorkers
  /\ res.err # Nil

\* C14 (as claimed): when pullRequests returns after starting its stages,
\* every match the producer sent has been received by a worker, once.
C14_Original ==
  (Returned /\ Ran) =>
    /\ BagToSet(taken) = Range(emitted)
    /\ \A i \in Range(emitted) : CopiesIn(i, taken) = 1

\* C14 (amended): a pipeline has nWorkers workers; no match is received
\* twice; a match the producer sent is either received or still in the
\* buffer of issues, never both; when pullRequests returns a nil error every
\* match sent has been received.  (After an error, matches may stay in the
\* buffer for good.)
C14_ConsumedOnce ==
  /\ pool # EmptyBag => BagCardinality(pool) = nWorkers
  /\ \A i \in BagToSet(taken) : CopiesIn(i, taken) = 1
  /\ Range(emitted) = BagToSet(taken) \cup Range(issues)
  /\ BagToSet(taken) \cap Range(issues) = {}
  /\ (Returned /\ Ran /\ res.err = Nil) => BagToSet(taken) = Range(emitted)

C14_Witness ==
  /\ Returned
  /\ Ran
  /\ res.err = Nil
  /\ Len(emitted) = MaxItems
  /\ BagCardinality(taken) = MaxItems
  /\ Cardinality(BagToSet(pool)) = 1

\* pullRequests has started its stages and run has not yet moved on.
InPipeline == Ran /\ mpc # "idle"

\* C15: the matches sent on issues, followed by those of the current page not
\* yet sent, are the matches of the pages received, in page order and in the
\* order within each page; a search request after the first goes out only
\* when the last response carried a next-page token; after a page the
\* producer asks for the next one if there is a token and returns otherwise;
\* a producer that returned with no search failure has sent every match of
\* every page, closed issues and recorded no error.
C15_Pagination ==
  /\ [](InPipeline => emitted \o pending = served)
  /\ []((InPipeline /\ ppc = "done" /\ ~sawSearchErr) =>
          /\ emitted = served
          /\ issuesClosed
          /\ ~nextPage)
  /\ [][page' = page + 1 => page = 0 \/ nextPage]_vars
  /\ [][(ppc = "emit" /\ ppc' # "emit") =>
          /\ IF nextPage THEN ppc' = "call" ELSE ppc' = "done"
          /\ issuesClosed' = ~nextPage
          /\ UNCHANGED <<gErr, firstErr, lastErr, emitted>>]_vars

C15_Witness ==
  /\ InPipeline
  /\ ppc = "done"
  /\ ~sawSearchErr
  /\ page = MaxPages
  /\ Len(emitted) = MaxItems
  /\ gErr = Nil

\* C16: the step in which a search request fails sends nothing and receives
\* no page, and after it the producer sends nothing and issues no request: it
\* has returned, issues is closed and holds only matches of the pages before,
\* a non-nil error is recorded with the group, pullRequests is not blocked,
\* and the error it returns is not nil.
C16_SearchFailureStops ==
  /\ []((InPipeline /\ sawSearchErr) =>
          /\ ppc = "done"
          /\ issuesClosed
          /\ emitted = served
          /\ firstErr # Nil
          /\ gErr # Nil
          /\ mpc \in {"reduce", "wait"} => ENABLED Next
          /\ Returned => res.err # Nil)
  /\ [][sawSearchErr' =>
          /\ emitted' = emitted
          /\ served' = served
          /\ IF sawSearchErr THEN page' = page
                             ELSE lastErr'.kind \in {"search", "canceled"}]_vars

C16_Witness ==
  /\ Returned
  /\ sawSearchErr
  /\ res.err = ErrSearch
  /\ page = MaxPages
  /\ emitted # <<>>

\* Remote calls of the current pipeline that have not returned.
InFlight == (IF ppc = "wait" THEN 1 ELSE 0) + Cardinality(Fetching)

\* C17: pullRequests is called for the authors in order, one call per author;
\* when a call is made and when it has returned, the producer and every
\* worker of the call before have returned and none of its remote calls is
\* outstanding, so no stage of one author runs beside a stage of another.
C17_OneAuthorAtATime ==
  /\ [](/\ Len(started) <= Len(Authors)
        /\ started = [i \in 1..Len(started) |-> Authors[i]]
        /\ mpc \in {"idle", "returned"} =>
              /\ ppc = "done"
              /\ Running = 0
              /\ InFlight = 0)
  /\ [][started' # started =>
          /\ mpc = "idle"
          /\ ppc = "done"
          /\ Running = 0
          /\ InFlight = 0
          /\ started' = Append(started, Authors[idx])]_vars

C17_Witness ==
  /\ started = <<Authors[1], Authors[2]>>
  /\ mpc = "reduce"
  /\ Running = nWorkers - 1
  /\ InFlight = 2
  /\ Len(cstats) = 1

\* Matches of the current pipeline a detail request was issued for.
Requested == Fetching \cup okAll \cup fetchErr \cup fetchBad

\* C18: the step in which a worker receives a match that is not a pull
\* request issues no detail request, sends nothing on prs, records no error
\* and leaves the worker at the head of its loop; no detail request is ever
\* issued for such a match and it is never sent on prs.
C18_NonPRSkipped ==
  /\ [](nonPR \cap (Requested \cup published \cup Range(prs)) = {})
  /\ [][(nonPR' # nonPR /\ nonPR' # {}) =>
          /\ Fetching' = Fetching
          /\ pool' = pool
          /\ UNCHANGED <<prs, published, workers, gErr, firstErr, lastErr>>]_vars

C18_Witness ==
  /\ Returned
  /\ res.err = Nil
  /\ Cardinality(nonPR) = 2
  /\ Cardinality(published) = 1
  /\ Len(res.prs) = 1

\* C19: the error the group holds and the error pullRequests returns are
\* never the cancellation error: a returned error is the format error, a
\* search error or the error of a detail request with a status other than
\* 200; a stage returns the cancellation error only when the group already
\* holds an error.
C19_RootCauseReturned ==
  /\ [](/\ gErr # ErrCanceled
        /\ firstErr # ErrCanceled
        /\ lastErr = ErrCanceled => gErr # Nil
        /\ Returned =>
              res.err.kind \in {"nil", "repofmt", "search", "prget",
                                "bodyclose"})
  /\ [][(lastErr' = ErrCanceled /\ lastErr # ErrCanceled) =>
          ctxDone /\ gErr # Nil /\ gErr' = gErr]_vars

C19_Witness ==
  /\ Returned
  /\ lastErr = ErrCanceled
  /\ res.err.kind = "prget"
  /\ sawSearchErr

\* C20: at every moment, and when pullRequests returns with or without an
\* error, the collection holds no match twice, and each of its records is of
\* a match the search returned whose detail request returned status 200: not
\* of a match that is not a pull request, nor of one whose request failed or
\* returned another status.
C20_RecordsAreFetchedPRs ==
  LET Sound(c) ==
        /\ Cardinality(Range(c)) = Len(c)
        /\ Range(c) \subseteq Range(served)
        /\ Range(c) \subseteq okAll
        /\ Range(c) \cap (nonPR \cup fetchErr \cup fetchBad) = {}
  IN  /\ Sound(allPRs)
      /\ Sound(prs \o allPRs)
      /\ Returned => Sound(res.prs)

C20_Witness ==
  /\ Returned
  /\ res.err # Nil
  /\ Len(res.prs) = 1
  /\ nonPR # {}
  /\ fetchBad # {}

\* C21: no step sends on a closed channel and no channel is closed twice.
\* A match is appended to issues only by the producer's emit loop while
\* issues is open; issues is closed by the step in which the producer
\* returns, on its nil and on its error return alike, and by no other step;
\* a record is appended to prs only while prs is open, and once prs is
\* closed no worker is left that could send; prs is closed at most once.
C21_NoSendOnClosedNoDoubleClose ==
  /\ [](/\ closes <= 1
        /\ InPipeline => (issuesClosed <=> ppc = "done")
        /\ prsClosed => \A w \in BagToSet(pool) : w.pc = "done")
  /\ [][Len(issues') > Len(issues) =>
          ~issuesClosed /\ ~issuesClosed' /\ ppc = "emit"]_vars
  /\ [][Len(prs') > Len(prs) => ~prsClosed /\ ~prsClosed']_vars
  /\ [][(ppc # "done" /\ ppc' = "done") =>
          ~issuesClosed /\ issuesClosed']_vars
  /\ [][issuesClosed' # issuesClosed =>
          \/ mpc = "idle" /\ ~issuesClosed'
          \/ ppc # "done" /\ ppc' = "done" /\ issuesClosed']_vars
  /\ [][closes' > closes => ~prsClosed /\ prsClosed']_vars

C21_Witness ==
  /\ Returned
  /\ Ran
  /\ issuesClosed
  /\ prsClosed
  /\ closes = 1
  /\ sawSearchErr
  /\ published # {}
  /\ lastErr = ErrCanceled
  /\ Len(started) = 2

====
